---- MODULE Spec2Model ----
(***************************************************************************)
(* Test-session engine of testengine_backend: the createSession,           *)
(* autosaveAnswers, submitSession and postSessionEvent handlers of         *)
(* controllers/sessionController.js over the relational store              *)
(* (test_attempts, test_sessions, attempt_answers, leaderboards,           *)
(* proctoring_events), with the get_user_test_limits entitlement function  *)
(* of migration 005.                                                       *)
(*                                                                         *)
(* Every awaited store call of a handler is one step of the request that   *)
(* runs it; the synchronous code between two awaits belongs to the step of *)
(* the preceding await.  Reads of the content store (tests,                *)
(* test_questions, question_options), which no handler modelled here       *)
(* writes, are folded into the neighbouring step.                          *)
(* Timestamps are abstracted to "set / not set"; answer_text and           *)
(* time_spent_seconds of an answer row are not modelled.                   *)
(***************************************************************************)
EXTENDS Integers, Sequences, FiniteSets, TLC

\* ------------------------------------------------------------------ bounds
NProcs == 2
MaxAttempts == 2
MaxRows == 2
MaxSubmits == 2
MaxQuestions == 2
MaxBatch == 2
MaxEvents == 3

\* ------------------------------------------------------- program constants
NULL == -99
ABSENT == -98
UNLIMITED == -1
FreeMockAttempts == 3
FreeChapterAttempts == 10
OptionsPerQuestion == 2

Procs == 1..NProcs
Users == {1, 2}
TestIds == {1, 2}
QIds == 1..MaxQuestions
\* question_options rows: option o belongs to question OptQuestion(o)
OptIds == 1..(OptionsPerQuestion * MaxQuestions)
OptQuestion(o) == ((o - 1) \div OptionsPerQuestion) + 1
OptionsOf(q) == {o \in OptIds : OptQuestion(o) = q}
\* selected_option_id values a client can send: an option id or nothing
SelVals == OptIds \cup {NULL}

VARIABLES
  tests,          \* tests table: test_id -> row
  testQuestions,  \* test_questions: test_id -> sequence of rows, in store order
  correctFlags,   \* question_options.is_correct: the set of flagged option ids
  planLimits,     \* plan features: [mock |-> attempts, chapter |-> attempts]
  transactions,   \* user -> test -> number of 'success' transaction rows
  attempts,       \* test_attempts: attempt_id -> row (status "deleted" = row gone)
  sessions,       \* test_sessions: test_session_id -> row; the token is the id
  answers,        \* attempt_answers: answer_id -> row
  leaderboards,   \* leaderboards rows, in insertion order
  events,         \* proctoring_events rows, in insertion order
  pc,             \* per request slot: the await the request is parked at
  req,            \* per request slot: the request's inputs
  loc,            \* per request slot: the handler's local variables
  resp,           \* per request slot: the last response sent
  lastSaved,      \* history: attempt -> question -> last autosaved selection
  submitLog,      \* history: submitSession calls that passed the checks, and
                  \* the results they returned
  before          \* history: per slot, the test_attempts and test_sessions
                  \* tables as the createSession in the slot found them

content == <<tests, testQuestions, correctFlags, planLimits, transactions>>
store == <<attempts, sessions, answers, leaderboards, events>>
hist == <<lastSaved, submitLog, before>>
vars == <<tests, testQuestions, correctFlags, planLimits, transactions,
          attempts, sessions, answers, leaderboards, events, pc, req, loc,
          resp, lastSaved, submitLog, before>>

\* -------------------------------------------------------------- helpers
Max(a, b) == IF a > b THEN a ELSE b

RECURSIVE SumSeq(_)
SumSeq(s) == IF s = <<>> THEN 0 ELSE Head(s) + SumSeq(Tail(s))

AttemptIds == 1..Len(attempts)
Exists(a) == a \in AttemptIds /\ attempts[a].status # "deleted"
InProgress(u, t) ==
  {a \in AttemptIds : attempts[a].user = u /\ attempts[a].test = t
                      /\ attempts[a].status = "in_progress"}

NoReq == [op |-> "none", user |-> 0, test |-> 0, token |-> 0,
          isArray |-> TRUE, answers |-> <<>>, type |-> "none"]
NoLoc == [attempt_id |-> 0, test_id |-> 0, i |-> 0, existing |-> 0,
          ansOf |-> <<>>, correctMap |-> <<>>, grade |-> <<>>,
          limit |-> <<>>, session |-> <<>>]
NoResp == [status |-> 0]

\* res.status(..).json(..): the request ends; its slot holds the response until
\* the client has taken it (Finish)
Respond(p, r) ==
  /\ pc' = [pc EXCEPT ![p] = "done"]
  /\ loc' = [loc EXCEPT ![p] = NoLoc]
  /\ resp' = [resp EXCEPT ![p] = r]

Goto(p, label) == pc' = [pc EXCEPT ![p] = label]

\* ------------------------------------------------ get_user_test_limits
\* usage counted over all test_attempts rows of the user, per test type
MockUsage(u) ==
  Cardinality({a \in AttemptIds : Exists(a) /\ attempts[a].user = u
                 /\ tests[attempts[a].test].test_type \in {"mock", "assessment"}})
ChapterUsage(u) ==
  Cardinality({a \in AttemptIds : Exists(a) /\ attempts[a].user = u
                 /\ tests[attempts[a].test].test_type = "practice"})

LimitRow(ty, lim, used) ==
  [test_type |-> ty, limit_value |-> lim, current_usage |-> used,
   remaining |-> Max(lim - used, 0)]

get_user_test_limits(u) ==
  << LimitRow("mock", planLimits.mock, MockUsage(u)),
     LimitRow("chapter", planLimits.chapter, ChapterUsage(u)),
     LimitRow("subject", planLimits.chapter, ChapterUsage(u)) >>

\* the category createSession checks, from test_type and metadata.test_category
TestCategory(t) ==
  IF t.test_type = "practice"
    THEN IF t.test_category = "chapter" THEN "chapter"
         ELSE IF t.test_category = "subject" THEN "subject"
         ELSE "mock"
    ELSE "mock"

\* limitsData.find(l => l.test_type === testCategory): first matching row
FindLimit(rows, cat) ==
  rows[CHOOSE i \in 1..Len(rows) :
         /\ rows[i].test_type = cat
         /\ \A j \in 1..(i - 1) : rows[j].test_type # cat]

HasLimit(rows, cat) == \E i \in 1..Len(rows) : rows[i].test_type = cat

\* mutant: the unlimited sentinel is not exempt
LimitBlocksUnlimited(rows, cat) ==
  /\ Len(rows) > 0
  /\ HasLimit(rows, cat)
  /\ FindLimit(rows, cat).remaining = 0

\* the quota test of createSession; rows = <<>> stands for a failed or
\* empty lookup
LimitBlocks(rows, cat) ==
  /\ Len(rows) > 0
  /\ HasLimit(rows, cat)
  /\ FindLimit(rows, cat).remaining = 0
  /\ FindLimit(rows, cat).limit_value # UNLIMITED

\* ------------------------------------------------------ createSession
\* requests that will still insert a test_attempts row
PendingCreates ==
  Cardinality({p \in Procs : pc[p] \in {"c_test", "c_tx", "c_limits",
                                        "c_delete", "c_insert"}})

BeginCreate(p, u, t) ==
  /\ pc[p] = "idle"
  /\ Len(attempts) + PendingCreates < MaxAttempts
  /\ req' = [req EXCEPT ![p] = [NoReq EXCEPT !.op = "create", !.user = u,
                                             !.test = t]]
  /\ IF t = 0
       THEN Respond(p, [status |-> 400])
       ELSE /\ Goto(p, "c_test")
            /\ resp' = [resp EXCEPT ![p] = NoResp]
            /\ UNCHANGED loc
  /\ before' = [before EXCEPT ![p] = <<attempts, sessions>>]
  /\ UNCHANGED <<content, store, lastSaved, submitLog>>

\* mutant: the end of the window is tested before its start
WindowCheckEndFirst(t) ==
  IF t.end_rel = "past" THEN "Test expired"
  ELSE IF t.start_rel = "future" THEN "Test not started"
  ELSE "ok"

\* the time-window checks; start_rel and end_rel place start_time and
\* end_time relative to now ("none": the column is null)
WindowCheck(t) ==
  IF t.start_rel = "future" THEN "Test not started"
  ELSE IF t.end_rel = "past" THEN "Test expired"
  ELSE "ok"

\* tests lookup (published filter), then the time-window checks
CreateTestLookup(p) ==
  /\ pc[p] = "c_test"
  /\ LET t == req[p].test IN
       IF t \notin DOMAIN tests \/ ~tests[t].is_published
         THEN Respond(p, [status |-> 404])
       ELSE IF WindowCheck(tests[t]) # "ok"
         THEN Respond(p, [status |-> 403, message |-> WindowCheck(tests[t])])
       ELSE /\ Goto(p, IF tests[t].is_free THEN "c_limits" ELSE "c_tx")
            /\ UNCHANGED <<loc, resp>>
  /\ UNCHANGED <<content, store, req, hist>>

\* transactions lookup with .single(): data only when exactly one row matches
CreateTxLookup(p) ==
  /\ pc[p] = "c_tx"
  /\ IF transactions[req[p].user][req[p].test] # 1
       THEN Respond(p, [status |-> 402])
       ELSE Goto(p, "c_limits") /\ UNCHANGED <<loc, resp>>
  /\ UNCHANGED <<content, store, req, hist>>

\* rpc get_user_test_limits; ok = FALSE is a failed lookup (limitsError)
CreateLimits(p, ok) ==
  /\ pc[p] = "c_limits"
  /\ LET rows == IF ok THEN get_user_test_limits(req[p].user) ELSE <<>>
         cat == TestCategory(tests[req[p].test])
     IN IF LimitBlocks(rows, cat)
          THEN Respond(p, [status |-> 403, limitReached |-> TRUE,
                           testType |-> cat,
                           limit |-> FindLimit(rows, cat).limit_value,
                           used |-> FindLimit(rows, cat).current_usage])
          ELSE /\ Goto(p, "c_delete")
               /\ loc' = [loc EXCEPT ![p].limit =
                            IF HasLimit(rows, cat) THEN FindLimit(rows, cat)
                            ELSE <<>>]
               /\ UNCHANGED resp
  /\ UNCHANGED <<content, store, req, hist>>

\* mutant: the cleanup deletes nothing
DeleteNothing(u, t) == attempts

\* mutant: the cleanup drops the attempt_status filter
DeleteAnyStatus(u, t) ==
  [a \in AttemptIds |->
     IF attempts[a].user = u /\ attempts[a].test = t
       THEN [attempts[a] EXCEPT !.status = "deleted"]
       ELSE attempts[a]]

\* delete from test_attempts where user, test, attempt_status = in_progress
DeleteInProgress(u, t) ==
  [a \in AttemptIds |->
     IF a \in InProgress(u, t)
       THEN [attempts[a] EXCEPT !.status = "deleted"]
       ELSE attempts[a]]

CreateDelete(p) ==
  /\ pc[p] = "c_delete"
  /\ attempts' = DeleteInProgress(req[p].user, req[p].test)
  /\ Goto(p, "c_insert")
  /\ UNCHANGED <<content, sessions, answers, leaderboards, events, req, loc, resp,
                 hist>>

NewAttempt(u, t) ==
  [user |-> u, test |-> t, status |-> "in_progress", session_id |-> NULL,
   end_time |-> FALSE, submit_time |-> 0,
   total_marks_obtained |-> NULL, percentage |-> NULL,
   correct_answers |-> NULL, incorrect_answers |-> NULL, unanswered |-> NULL]

\* test_attempts insert; ok = FALSE is a failed insert (attErr), answered 500
CreateInsertAttempt(p, ok) ==
  /\ pc[p] = "c_insert"
  /\ IF ok
       THEN /\ attempts' = Append(attempts,
                                  NewAttempt(req[p].user, req[p].test))
            /\ loc' = [loc EXCEPT ![p].attempt_id = Len(attempts) + 1]
            /\ Goto(p, "c_session")
            /\ UNCHANGED resp
       ELSE /\ Respond(p, [status |-> 500])
            /\ UNCHANGED attempts
  /\ UNCHANGED <<content, sessions, answers, leaderboards, events, req,
                 hist>>

\* the test_sessions row createSession inserts; the counters are not in the
\* payload and start as null
NewSession(a) ==
  [attempt_id |-> a, session_end |-> FALSE, tab_switches |-> NULL,
   screenshot_count |-> NULL, violation_count |-> NULL]

\* genToken(): a fresh token; the token of a session is modelled by its id
\* test_sessions insert; ok = FALSE is a failed insert (sessErr), answered 500
CreateInsertSession(p, ok) ==
  /\ pc[p] = "c_session"
  /\ IF ok
       THEN /\ sessions' = Append(sessions, NewSession(loc[p].attempt_id))
            /\ loc' = [loc EXCEPT ![p].existing = Len(sessions) + 1]
            /\ Goto(p, "c_backfill")
            /\ UNCHANGED resp
       ELSE /\ Respond(p, [status |-> 500])
            /\ UNCHANGED sessions
  /\ UNCHANGED <<content, attempts, answers, leaderboards, events, req,
                 hist>>

\* update test_attempts set session_id where attempt_id = attempt.attempt_id
CreateBackfill(p) ==
  /\ pc[p] = "c_backfill"
  /\ attempts' = [a \in AttemptIds |->
                    IF a = loc[p].attempt_id /\ Exists(a)
                      THEN [attempts[a] EXCEPT !.session_id = loc[p].existing]
                      ELSE attempts[a]]
  /\ Goto(p, "c_questions")
  /\ UNCHANGED <<content, sessions, answers, leaderboards, events, req, loc, resp,
                 hist>>

\* question_options rows of the questions qs as the options fetch returns
\* them (option_id, question_id, option_text, option_order, is_correct), in
\* option_order; the text of an option is modelled by its id
OptionRows(qs) ==
  SelectSeq([o \in OptIds |->
               [option_id |-> o, question_id |-> OptQuestion(o),
                option_text |-> o, is_correct |-> o \in correctFlags]],
            LAMBDA r : r.question_id \in qs)

\* mutant: the option of the payload carries the correctness flag
PayloadOptionWithKey(o) ==
  [optionId |-> o.option_id, text |-> o.option_text,
   isCorrect |-> o.is_correct]

\* the entry optionsMap holds for an option row
PayloadOption(o) == [optionId |-> o.option_id, text |-> o.option_text]

\* optionsMap.get(q): the entries of the rows of question q, in row order
OptionsMapGet(rows, q) ==
  LET mine == SelectSeq(rows, LAMBDA r : r.question_id = q)
  IN [k \in 1..Len(mine) |-> PayloadOption(mine[k])]

\* the question list of the response
QuestionsPayload(t) ==
  LET qs == testQuestions[t]
      rows == OptionRows({qs[i].question_id : i \in 1..Len(qs)})
  IN [i \in 1..Len(qs) |->
        [questionId |-> qs[i].question_id,
         marks |-> qs[i].marks_allocated,
         negative |-> qs[i].negative_marks_allocated,
         options |-> OptionsMapGet(rows, qs[i].question_id)]]

CreateRespond(p) ==
  /\ pc[p] = "c_questions"
  /\ Respond(p, [status |-> 201, sessionToken |-> loc[p].existing,
                 attemptId |-> loc[p].attempt_id,
                 questions |-> QuestionsPayload(req[p].test)])
  /\ UNCHANGED <<content, store, req, hist>>

\* ---------------------------------------------------- autosaveAnswers
RowsOf(a, q) ==
  {r \in 1..Len(answers) : answers[r].attempt_id = a
                           /\ answers[r].question_id = q}

\* array elements of in-flight autosaves that may still insert a row
PendingInserts ==
  SumSeq([p \in Procs |->
            IF pc[p] \in {"a_session", "a_attempt", "a_find", "a_write"}
              THEN Len(req[p].answers) - Max(loc[p].i - 1, 0)
              ELSE 0])

\* the selection the array leaves for question q: its last element naming q
LastMention(arr, q) ==
  arr[CHOOSE i \in 1..Len(arr) :
        /\ arr[i].questionId = q
        /\ \A j \in (i + 1)..Len(arr) : arr[j].questionId # q].selectedOptionId

Mentioned(arr) == {arr[i].questionId : i \in 1..Len(arr)}

\* questions of the array that have no single row yet in the token's attempt
NewRows(tok, arr) ==
  Cardinality({q \in Mentioned(arr) :
                 tok \notin 1..Len(sessions)
                 \/ Cardinality(RowsOf(sessions[tok].attempt_id, q)) # 1})

BeginAutosave(p, u, tok, isArr, arr) ==
  /\ pc[p] = "idle"
  /\ Len(answers) + PendingInserts + NewRows(tok, arr) <= MaxRows
  /\ req' = [req EXCEPT ![p] = [NoReq EXCEPT !.op = "autosave", !.user = u,
                                  !.token = tok, !.isArray = isArr,
                                  !.answers = arr]]
  /\ IF ~isArr
       THEN Respond(p, [status |-> 400])
       ELSE /\ Goto(p, "a_session")
            /\ resp' = [resp EXCEPT ![p] = NoResp]
            /\ UNCHANGED loc
  /\ UNCHANGED <<content, store, hist>>

AutoSessionLookup(p) ==
  /\ pc[p] = "a_session"
  /\ IF req[p].token \notin 1..Len(sessions)
       THEN Respond(p, [status |-> 404])
       ELSE /\ loc' = [loc EXCEPT
                         ![p].attempt_id = sessions[req[p].token].attempt_id]
            /\ Goto(p, "a_attempt")
            /\ UNCHANGED resp
  /\ UNCHANGED <<content, store, req, hist>>

AutoAttemptLookup(p) ==
  /\ pc[p] = "a_attempt"
  /\ LET a == loc[p].attempt_id
         arr == req[p].answers
     IN IF ~Exists(a) \/ attempts[a].user # req[p].user
          THEN Respond(p, [status |-> 403]) /\ UNCHANGED hist
          ELSE /\ loc' = [loc EXCEPT ![p].i = 1]
               /\ Goto(p, IF Len(arr) = 0 THEN "a_touch" ELSE "a_find")
               /\ lastSaved' =
                    [k \in DOMAIN lastSaved
                            \cup {<<a, q>> : q \in Mentioned(arr)} |->
                       IF k[1] = a /\ k[2] \in Mentioned(arr)
                         THEN LastMention(arr, k[2])
                         ELSE lastSaved[k]]
               /\ UNCHANGED <<resp, submitLog, before>>
  /\ UNCHANGED <<content, store, req>>

\* mutant: the lookup of the existing row never finds it
SingleRowNever(a, q) == 0

\* select answer_id ... .single(): a row only when exactly one row matches
SingleRow(a, q) ==
  IF Cardinality(RowsOf(a, q)) = 1
    THEN CHOOSE r \in RowsOf(a, q) : TRUE
    ELSE 0

AutoFind(p) ==
  /\ pc[p] = "a_find"
  /\ loc' = [loc EXCEPT ![p].existing =
               SingleRow(loc[p].attempt_id,
                         req[p].answers[loc[p].i].questionId)]
  /\ Goto(p, "a_write")
  /\ UNCHANGED <<content, store, req, resp, hist>>

AutoWrite(p) ==
  /\ pc[p] = "a_write"
  /\ LET e == req[p].answers[loc[p].i]
         a == loc[p].attempt_id
     IN IF loc[p].existing # 0
          THEN answers' = [answers EXCEPT ![loc[p].existing] =
                             [@ EXCEPT !.attempt_id = a,
                                       !.question_id = e.questionId,
                                       !.selected_option_id =
                                          e.selectedOptionId]]
          ELSE answers' = Append(answers,
                             [attempt_id |-> a,
                              question_id |-> e.questionId,
                              selected_option_id |-> e.selectedOptionId,
                              marks_obtained |-> NULL,
                              is_correct |-> "null"])
  /\ loc' = [loc EXCEPT ![p].i = @ + 1, ![p].existing = 0]
  /\ Goto(p, IF loc[p].i = Len(req[p].answers) THEN "a_touch" ELSE "a_find")
  /\ UNCHANGED <<content, attempts, sessions, leaderboards, events, req, resp,
                 hist>>

\* update test_attempts set end_time = now where attempt_id = ...
AutoTouch(p) ==
  /\ pc[p] = "a_touch"
  /\ attempts' = [a \in AttemptIds |->
                    IF a = loc[p].attempt_id /\ Exists(a)
                      THEN [attempts[a] EXCEPT !.end_time = TRUE]
                      ELSE attempts[a]]
  /\ Respond(p, [status |-> 200])
  /\ UNCHANGED <<content, sessions, answers, leaderboards, events, req, hist>>

\* ------------------------------------------------------- submitSession
PendingSubmits ==
  Cardinality({p \in Procs : req[p].op = "submit"
                               /\ pc[p] \notin {"idle", "done"}})

BeginSubmit(p, u, tok) ==
  /\ pc[p] = "idle"
  /\ Len(leaderboards) + PendingSubmits < MaxSubmits
  /\ req' = [req EXCEPT ![p] = [NoReq EXCEPT !.op = "submit", !.user = u,
                                             !.token = tok]]
  /\ Goto(p, "s_session")
  /\ resp' = [resp EXCEPT ![p] = NoResp]
  /\ UNCHANGED <<content, store, loc, hist>>

SubSessionLookup(p) ==
  /\ pc[p] = "s_session"
  /\ IF req[p].token \notin 1..Len(sessions)
       THEN Respond(p, [status |-> 404])
       ELSE /\ loc' = [loc EXCEPT
                         ![p].attempt_id = sessions[req[p].token].attempt_id]
            /\ Goto(p, "s_attempt")
            /\ UNCHANGED resp
  /\ UNCHANGED <<content, store, req, hist>>

SubAttemptLookup(p) ==
  /\ pc[p] = "s_attempt"
  /\ LET a == loc[p].attempt_id
     IN IF ~Exists(a) \/ attempts[a].user # req[p].user
          THEN Respond(p, [status |-> 403]) /\ UNCHANGED submitLog
          ELSE /\ loc' = [loc EXCEPT ![p].test_id = attempts[a].test]
               /\ Goto(p, "s_cleanup")
               /\ submitLog' = [submitLog EXCEPT !.passed = Append(@, a)]
               /\ UNCHANGED resp
  /\ UNCHANGED <<content, store, req, lastSaved, before>>

\* mutant: the cleanup of submitSession does not spare the submitted attempt
SubCleanupAll(p) ==
  /\ pc[p] = "s_cleanup"
  /\ attempts' = [a \in AttemptIds |->
                    IF a \in InProgress(req[p].user, loc[p].test_id)
                      THEN [attempts[a] EXCEPT !.status = "deleted"]
                      ELSE attempts[a]]
  /\ Goto(p, "s_answers")
  /\ UNCHANGED <<content, sessions, answers, leaderboards, events, req, loc,
                 resp, hist>>

\* delete ... where user, test, in_progress and attempt_id <> this attempt
SubCleanup(p) ==
  /\ pc[p] = "s_cleanup"
  /\ attempts' = [a \in AttemptIds |->
                    IF a \in InProgress(req[p].user, loc[p].test_id)
                       /\ a # loc[p].attempt_id
                      THEN [attempts[a] EXCEPT !.status = "deleted"]
                      ELSE attempts[a]]
  /\ Goto(p, "s_answers")
  /\ UNCHANGED <<content, sessions, answers, leaderboards, events, req, loc, resp,
                 hist>>

\* questions that have at least one answer row of the attempt (answeredQIds)
AnsweredQIds(a) == {answers[r].question_id :
                      r \in {x \in 1..Len(answers) : answers[x].attempt_id = a}}

\* the rows answers.find(a => a.question_id === qid) can return: the first
\* matching row in the order the store returned them, which is any of them
FindChoices(a) ==
  {f \in [AnsweredQIds(a) -> 1..Len(answers)] :
     \A q \in AnsweredQIds(a) : f[q] \in RowsOf(a, q)}

\* the option correctMap can hold for a question: the last flagged row in the
\* order the store returned the options, which is any flagged option
CorrectChoices(qs) ==
  {f \in [qs -> OptIds \cup {NULL}] :
     \A q \in qs :
       IF OptionsOf(q) \cap correctFlags = {}
         THEN f[q] = NULL
         ELSE f[q] \in OptionsOf(q) \cap correctFlags}

\* mutants of the grading loop's iteration:
\*   "uncounted"  a question without a flagged option is not counted at all
\*   "nonegative" a wrong answer subtracts nothing
\*   "nullwrong"  a row with a null selection is graded like a wrong answer
GradeStepMutant(acc, tq, ansOf, correctMap, kind) ==
  LET qid == tq.question_id
      sel == IF qid \in DOMAIN ansOf THEN ansOf[qid] ELSE ABSENT
      tp  == acc.totalPossible + tq.marks_allocated
      neg == IF kind = "nonegative" THEN 0 ELSE tq.negative_marks_allocated
      unatt ==
        [acc EXCEPT !.totalPossible = tp, !.unattempted = @ + 1,
           !.perQ = Append(@, [questionId |-> qid, marksObtained |-> 0,
                               isCorrect |-> "false"])]
      skipped ==
        [acc EXCEPT !.totalPossible = tp,
           !.perQ = Append(@, [questionId |-> qid, marksObtained |-> 0,
                               isCorrect |-> "false"])]
  IN IF sel = ABSENT \/ (sel = NULL /\ kind # "nullwrong") THEN unatt
     ELSE IF correctMap[qid] = NULL
       THEN IF kind = "uncounted" THEN skipped ELSE unatt
     ELSE IF correctMap[qid] = sel
       THEN [acc EXCEPT !.totalPossible = tp, !.correct = @ + 1,
               !.totalObtained = @ + tq.marks_allocated,
               !.perQ = Append(@, [questionId |-> qid,
                                   marksObtained |-> tq.marks_allocated,
                                   isCorrect |-> "true"])]
       ELSE [acc EXCEPT !.totalPossible = tp, !.incorrect = @ + 1,
               !.totalObtained = @ - neg,
               !.perQ = Append(@, [questionId |-> qid,
                                   marksObtained |-> 0 - neg,
                                   isCorrect |-> "false"])]

GradeStepUncounted(acc, tq, ansOf, correctMap) ==
  GradeStepMutant(acc, tq, ansOf, correctMap, "uncounted")

GradeStepNoNegative(acc, tq, ansOf, correctMap) ==
  GradeStepMutant(acc, tq, ansOf, correctMap, "nonegative")

GradeStepNullWrong(acc, tq, ansOf, correctMap) ==
  GradeStepMutant(acc, tq, ansOf, correctMap, "nullwrong")

\* one iteration of the grading loop, for test_questions row tq
GradeStep(acc, tq, ansOf, correctMap) ==
  LET qid == tq.question_id
      sel == IF qid \in DOMAIN ansOf THEN ansOf[qid] ELSE ABSENT
      tp  == acc.totalPossible + tq.marks_allocated
      unatt ==
        [acc EXCEPT !.totalPossible = tp, !.unattempted = @ + 1,
           !.perQ = Append(@, [questionId |-> qid, marksObtained |-> 0,
                               isCorrect |-> "false"])]
  IN IF sel = ABSENT \/ sel = NULL THEN unatt
     ELSE IF correctMap[qid] = NULL THEN unatt
     ELSE IF correctMap[qid] = sel
       THEN [acc EXCEPT !.totalPossible = tp, !.correct = @ + 1,
               !.totalObtained = @ + tq.marks_allocated,
               !.perQ = Append(@, [questionId |-> qid,
                                   marksObtained |-> tq.marks_allocated,
                                   isCorrect |-> "true"])]
       ELSE [acc EXCEPT !.totalPossible = tp, !.incorrect = @ + 1,
               !.totalObtained = @ - tq.negative_marks_allocated,
               !.perQ = Append(@, [questionId |-> qid,
                                   marksObtained |-> 0 - tq.negative_marks_allocated,
                                   isCorrect |-> "false"])]

RECURSIVE GradeLoop(_, _, _, _)
GradeLoop(acc, qs, ansOf, correctMap) ==
  IF qs = <<>> THEN acc
  ELSE GradeLoop(GradeStep(acc, Head(qs), ansOf, correctMap), Tail(qs),
                 ansOf, correctMap)

\* mutant: no clamp
ClampNone(x) == x

\* if (totalObtained < 0) totalObtained = 0
Clamp(x) == IF x < 0 THEN 0 ELSE x

\* percentage as the exact fraction num / den
Percentage(obtained, possible) ==
  IF possible > 0 THEN [num |-> obtained * 100, den |-> possible]
  ELSE [num |-> 0, den |-> 1]

\* mutant: the two decimals are cut off instead of rounded
ToFixedTruncated(pct) == (100 * pct.num) \div pct.den

\* Number(percentage.toFixed(2)), in hundredths: round to nearest, half up
ToFixed2(pct) == (2 * 100 * pct.num + pct.den) \div (2 * pct.den)

Grade(qs, ansOf, correctMap) ==
  LET g == GradeLoop([correct |-> 0, incorrect |-> 0, unattempted |-> 0,
                      totalObtained |-> 0, totalPossible |-> 0,
                      perQ |-> <<>>], qs, ansOf, correctMap)
      clamped == Clamp(g.totalObtained)
  IN [g EXCEPT !.totalObtained = clamped]

\* answers and test_questions reads; the zero-answer test follows them
SubReadAnswers(p, find) ==
  /\ pc[p] = "s_answers"
  /\ find \in FindChoices(loc[p].attempt_id)
  /\ loc' = [loc EXCEPT ![p].ansOf =
               [q \in DOMAIN find |-> answers[find[q]].selected_option_id]]
  /\ Goto(p, IF AnsweredQIds(loc[p].attempt_id) = {}
               THEN "s_zero_update" ELSE "s_options")
  /\ UNCHANGED <<content, store, req, resp, hist>>

\* zero-answer path: every question unattempted
ZeroTotalPossible(qs) ==
  SumSeq([i \in 1..Len(qs) |-> qs[i].marks_allocated])

\* new Date() as a logical timestamp: 0 is "not set", and a write stores a
\* time later than the one the row holds
Now(stored) == stored + 1

CompleteAttempt(a, obtained, pct, c, ic, un) ==
  [x \in AttemptIds |->
     IF x = a /\ Exists(x)
       THEN [attempts[x] EXCEPT !.end_time = TRUE,
               !.submit_time = Now(@),
               !.status = "completed", !.total_marks_obtained = obtained,
               !.percentage = pct, !.correct_answers = c,
               !.incorrect_answers = ic, !.unanswered = un]
       ELSE attempts[x]]

\* history entry of a result: the attempt, the selections its ledger held and
\* the response
LogEntry(a, r) ==
  [attempt |-> a,
   ledger |-> {<<x, answers[x].question_id, answers[x].selected_option_id>> :
                 x \in {y \in 1..Len(answers) : answers[y].attempt_id = a}},
   score |-> r.score, percentage |-> r.percentage, correct |-> r.correct,
   incorrect |-> r.incorrect, unanswered |-> r.unanswered]

SubZeroUpdate(p) ==
  /\ pc[p] = "s_zero_update"
  /\ attempts' = CompleteAttempt(loc[p].attempt_id, 0, Percentage(0, 0), 0, 0,
                                 Len(testQuestions[loc[p].test_id]))
  /\ Goto(p, "s_zero_board")
  /\ UNCHANGED <<content, sessions, answers, leaderboards, events, req, loc, resp,
                 hist>>

SubZeroLeaderboard(p) ==
  /\ pc[p] = "s_zero_board"
  /\ leaderboards' = Append(leaderboards,
                            [test_id |-> loc[p].test_id,
                             user_id |-> req[p].user, score |-> 0])
  /\ Respond(p, [status |-> 200, attemptId |-> loc[p].attempt_id,
                 score |-> 0, percentage |-> 0, correct |-> 0,
                 incorrect |-> 0,
                 unanswered |-> Len(testQuestions[loc[p].test_id]),
                 totalPossible |->
                   ZeroTotalPossible(testQuestions[loc[p].test_id]),
                 path |-> "zero"])
  /\ submitLog' = [submitLog EXCEPT !.results =
                     Append(@, LogEntry(loc[p].attempt_id, resp'[p]))]
  /\ UNCHANGED <<content, attempts, sessions, answers, events, req,
                 lastSaved, before>>

\* question_options read for the answered questions, then the grading loop
SubReadOptions(p, cm) ==
  /\ pc[p] = "s_options"
  /\ cm \in CorrectChoices(DOMAIN loc[p].ansOf)
  /\ loc' = [loc EXCEPT ![p].correctMap = cm,
                        ![p].grade = Grade(testQuestions[loc[p].test_id],
                                           loc[p].ansOf, cm)]
  /\ Goto(p, "s_update")
  /\ UNCHANGED <<content, store, req, resp, hist>>

SubUpdateAttempt(p) ==
  /\ pc[p] = "s_update"
  /\ LET g == loc[p].grade
     IN attempts' = CompleteAttempt(loc[p].attempt_id, g.totalObtained,
                                    Percentage(g.totalObtained, g.totalPossible),
                                    g.correct, g.incorrect, g.unattempted)
  /\ Goto(p, "s_session_end")
  /\ UNCHANGED <<content, sessions, answers, leaderboards, events, req, loc, resp,
                 hist>>

\* update test_sessions set session_end = now where attempt_id = ...
SubUpdateSession(p) ==
  /\ pc[p] = "s_session_end"
  /\ sessions' = [x \in 1..Len(sessions) |->
                    IF sessions[x].attempt_id = loc[p].attempt_id
                      THEN [sessions[x] EXCEPT !.session_end = TRUE]
                      ELSE sessions[x]]
  /\ loc' = [loc EXCEPT ![p].i = 1]
  /\ Goto(p, IF Len(loc[p].grade.perQ) = 0 THEN "s_board" ELSE "s_marks")
  /\ UNCHANGED <<content, attempts, answers, leaderboards, events, req, resp,
                 hist>>

\* update attempt_answers set marks_obtained, is_correct where attempt, question
SubUpdateAnswer(p) ==
  /\ pc[p] = "s_marks"
  /\ LET pq == loc[p].grade.perQ[loc[p].i]
     IN answers' = [r \in 1..Len(answers) |->
                      IF r \in RowsOf(loc[p].attempt_id, pq.questionId)
                        THEN [answers[r] EXCEPT
                                !.marks_obtained = pq.marksObtained,
                                !.is_correct = pq.isCorrect]
                        ELSE answers[r]]
  /\ loc' = [loc EXCEPT ![p].i = @ + 1]
  /\ Goto(p, IF loc[p].i = Len(loc[p].grade.perQ) THEN "s_board" ELSE "s_marks")
  /\ UNCHANGED <<content, attempts, sessions, leaderboards, events, req, resp,
                 hist>>

SubLeaderboard(p) ==
  /\ pc[p] = "s_board"
  /\ LET g == loc[p].grade
     IN /\ leaderboards' = Append(leaderboards,
                                  [test_id |-> loc[p].test_id,
                                   user_id |-> req[p].user,
                                   score |-> g.totalObtained])
        /\ Respond(p, [status |-> 200, attemptId |-> loc[p].attempt_id,
                       score |-> g.totalObtained,
                       percentage |->
                         ToFixed2(Percentage(g.totalObtained, g.totalPossible)),
                       correct |-> g.correct, incorrect |-> g.incorrect,
                       unanswered |-> g.unattempted,
                       totalPossible |-> g.totalPossible,
                       path |-> "graded"])
  /\ submitLog' = [submitLog EXCEPT !.results =
                     Append(@, LogEntry(loc[p].attempt_id, resp'[p]))]
  /\ UNCHANGED <<content, attempts, sessions, answers, events, req,
                 lastSaved, before>>

\* ---------------------------------------------------- postSessionEvent
validTypes == {"tab_switch", "fullscreen_exit", "screenshot",
               "face_detection", "multiple_faces", "heartbeat"}

\* (x || 0)
OrZero(x) == IF x = NULL THEN 0 ELSE x

\* mutant: leaving fullscreen counts as a violation
CounterFieldsFullscreen(type) ==
  IF type = "tab_switch" THEN {"tab_switches"}
  ELSE IF type = "screenshot" THEN {"screenshot_count"}
  ELSE IF type \in {"multiple_faces", "face_detection", "fullscreen_exit"}
    THEN {"violation_count"}
  ELSE {}

\* the keys of updates for an event type
CounterFields(type) ==
  IF type = "tab_switch" THEN {"tab_switches"}
  ELSE IF type = "screenshot" THEN {"screenshot_count"}
  ELSE IF type \in {"multiple_faces", "face_detection"}
    THEN {"violation_count"}
  ELSE {}

\* updates: each key one more than the value read with the session
Updates(session, type) ==
  [f \in CounterFields(type) |-> OrZero(session[f]) + 1]

\* requests that will still insert a proctoring_events row
PendingEvents ==
  Cardinality({p \in Procs : pc[p] \in {"e_session", "e_insert"}})

BeginEvent(p, u, tok, type) ==
  /\ pc[p] = "idle"
  /\ Len(events) + PendingEvents < MaxEvents
  /\ req' = [req EXCEPT ![p] = [NoReq EXCEPT !.op = "event", !.user = u,
                                             !.token = tok, !.type = type]]
  /\ IF type \notin validTypes
       THEN Respond(p, [status |-> 400])
       ELSE /\ Goto(p, "e_session")
            /\ resp' = [resp EXCEPT ![p] = NoResp]
            /\ UNCHANGED loc
  /\ UNCHANGED <<content, store, hist>>

\* test_sessions lookup by token, reading the three counters
EventSessionLookup(p) ==
  /\ pc[p] = "e_session"
  /\ IF req[p].token \notin 1..Len(sessions)
       THEN Respond(p, [status |-> 404])
       ELSE /\ loc' = [loc EXCEPT
                         ![p].session = sessions[req[p].token],
                         ![p].existing = req[p].token]
            /\ Goto(p, "e_insert")
            /\ UNCHANGED resp
  /\ UNCHANGED <<content, store, req, hist>>

\* proctoring_events insert; without a counter to update the request ends
EventInsert(p) ==
  /\ pc[p] = "e_insert"
  /\ events' = Append(events, [test_session_id |-> loc[p].existing,
                               event_type |-> req[p].type])
  /\ IF DOMAIN Updates(loc[p].session, req[p].type) = {}
       THEN Respond(p, [status |-> 200])
       ELSE Goto(p, "e_update") /\ UNCHANGED <<loc, resp>>
  /\ UNCHANGED <<content, attempts, sessions, answers, leaderboards, req,
                 hist>>

\* update test_sessions set <updates> where test_session_id = ...
EventUpdate(p) ==
  /\ pc[p] = "e_update"
  /\ LET upd == Updates(loc[p].session, req[p].type)
         id == loc[p].existing
     IN sessions' = [sessions EXCEPT ![id] =
                       [f \in DOMAIN @ |->
                          IF f \in DOMAIN upd THEN upd[f] ELSE @[f]]]
  /\ Respond(p, [status |-> 200])
  /\ UNCHANGED <<content, attempts, answers, leaderboards, events, req,
                 hist>>

\* ------------------------------------------------------ initial states
BaseTest ==
  [is_published |-> TRUE, start_rel |-> "none", end_rel |-> "none",
   is_free |-> TRUE, test_type |-> "mock", test_category |-> "none"]

PaidChapterTest ==
  [BaseTest EXCEPT !.is_free = FALSE, !.test_type = "practice",
                   !.test_category = "chapter"]

\* plan features: the Free defaults of get_user_test_limits, a plan of one
\* attempt per category, and an unlimited plan
FreePlan == [mock |-> FreeMockAttempts, chapter |-> FreeChapterAttempts]
OnePlan == [mock |-> 1, chapter |-> 1]
UnlimitedPlan == [mock |-> UNLIMITED, chapter |-> UNLIMITED]

TQ(q, m, n) ==
  [question_id |-> q, marks_allocated |-> m, negative_marks_allocated |-> n]

\* marks / negative marks of a question (addQuestion sets both freely)
Schemes == {<<4, 1>>, <<2, 1>>, <<0, 0>>}

\* test_questions of a test: questions 1..n, each with a scheme
QuestionLists ==
  UNION {{[i \in 1..n |-> TQ(i, f[i][1], f[i][2])] : f \in [1..n -> Schemes]}
           : n \in 0..MaxQuestions}

InitRequests ==
  /\ pc = [p \in Procs |-> "idle"]
  /\ req = [p \in Procs |-> NoReq]
  /\ loc = [p \in Procs |-> NoLoc]
  /\ resp = [p \in Procs |-> NoResp]
  /\ lastSaved = <<>>
  /\ submitLog = [passed |-> <<>>, results |-> <<>>]
  /\ before = [p \in Procs |-> <<>>]

EmptyStore ==
  /\ attempts = <<>>
  /\ sessions = <<>>
  /\ answers = <<>>
  /\ leaderboards = <<>>
  /\ events = <<>>

\* the store after one successful createSession(u, t)
StartedStore(u, t) ==
  /\ attempts = <<[NewAttempt(u, t) EXCEPT !.session_id = 1]>>
  /\ sessions = <<NewSession(1)>>
  /\ leaderboards = <<>>
  /\ events = <<>>

\* the catalogue of the lifecycle specifications: test 1 is a free mock test
\* of MaxQuestions questions (4 marks, 1 negative, first option correct),
\* test 2 a paid chapter practice test without questions that only user 1
\* has paid for
FixedContent ==
  /\ tests = [t \in TestIds |-> IF t = 1 THEN BaseTest ELSE PaidChapterTest]
  /\ testQuestions = [t \in TestIds |->
                        IF t = 1 THEN [i \in QIds |-> TQ(i, 4, 1)] ELSE <<>>]
  /\ correctFlags = {OptionsPerQuestion * (q - 1) + 1 : q \in QIds}
  /\ transactions = [u \in Users |-> [t \in TestIds |-> IF u = 1 THEN 1 ELSE 0]]

AnswerElems(qs, sels) ==
  {[questionId |-> q, selectedOptionId |-> s] : q \in qs, s \in sels}

AnswerArrays(n, qs, sels) ==
  UNION {[1..k -> AnswerElems(qs, sels)] : k \in 0..n}

Tokens == 1..(Len(sessions) + 1)

\* the client takes the response; the slot is free for the next request
Finish(p) ==
  /\ pc[p] = "done"
  /\ pc' = [pc EXCEPT ![p] = "idle"]
  /\ req' = [req EXCEPT ![p] = NoReq]
  /\ resp' = [resp EXCEPT ![p] = NoResp]
  /\ before' = [before EXCEPT ![p] = <<>>]
  /\ UNCHANGED <<content, store, loc, lastSaved, submitLog>>

CreateSteps(p) ==
  \/ CreateTestLookup(p)
  \/ CreateTxLookup(p)
  \/ \E ok \in BOOLEAN : CreateLimits(p, ok)
  \/ CreateDelete(p)
  \/ CreateInsertAttempt(p, TRUE)
  \/ CreateInsertSession(p, TRUE)
  \/ CreateBackfill(p)
  \/ CreateRespond(p)

\* createSession over a store whose inserts can fail
CreateStepsFailing(p) ==
  \/ CreateSteps(p)
  \/ CreateInsertAttempt(p, FALSE)
  \/ CreateInsertSession(p, FALSE)

AutosaveSteps(p) ==
  \/ AutoSessionLookup(p)
  \/ AutoAttemptLookup(p)
  \/ AutoFind(p)
  \/ AutoWrite(p)
  \/ AutoTouch(p)

SubmitSteps(p) ==
  \/ SubSessionLookup(p)
  \/ SubAttemptLookup(p)
  \/ SubCleanup(p)
  \/ \E find \in FindChoices(loc[p].attempt_id) : SubReadAnswers(p, find)
  \/ \E cm \in CorrectChoices(DOMAIN loc[p].ansOf) : SubReadOptions(p, cm)
  \/ SubZeroUpdate(p)
  \/ SubZeroLeaderboard(p)
  \/ SubUpdateAttempt(p)
  \/ SubUpdateSession(p)
  \/ SubUpdateAnswer(p)
  \/ SubLeaderboard(p)

CreateRequests(p, us, ts) == \E u \in us, t \in ts : BeginCreate(p, u, t)

AutosaveRequests(p, us, arrs) ==
  \E u \in us, tok \in Tokens :
    \/ BeginAutosave(p, u, tok, FALSE, <<>>)
    \/ \E arr \in arrs : BeginAutosave(p, u, tok, TRUE, arr)

SubmitRequests(p, us) == \E u \in us, tok \in Tokens : BeginSubmit(p, u, tok)

EventSteps(p) ==
  \/ EventSessionLookup(p)
  \/ EventInsert(p)
  \/ EventUpdate(p)

EventRequests(p, us, types) ==
  \E u \in us, tok \in Tokens, type \in types : BeginEvent(p, u, tok, type)

\* ---------------------------------------------------------------------
\* Spec: the whole lifecycle, requests one after the other (one slot), over
\* a store whose inserts succeed.
\* Test id 0 is a missing testId, 3 an id of no test.
Init ==
  /\ FixedContent
  /\ planLimits = FreePlan
  /\ EmptyStore
  /\ InitRequests

Next ==
  \/ CreateRequests(1, Users, {0, 1, 2, 3})
  \/ AutosaveRequests(1, Users, AnswerArrays(1, QIds, {1, NULL}))
  \/ SubmitRequests(1, Users)
  \/ CreateSteps(1)
  \/ AutosaveSteps(1)
  \/ SubmitSteps(1)
  \/ Finish(1)

Spec == Init /\ [][Next]_vars

\* ---------------------------------------------------------------------
\* SpecRace: requests of one user running concurrently, one per slot; every
\* await of one request can fall between two awaits of another. Sessions
\* are started on the free test 1 and the paid test 2.
NextRace ==
  \E p \in Procs :
    \/ CreateRequests(p, {1}, TestIds)
    \/ AutosaveRequests(p, {1}, AnswerArrays(1, {1}, {1, 2}))
    \/ CreateSteps(p)
    \/ AutosaveSteps(p)
    \/ Finish(p)

SpecRace == Init /\ [][NextRace]_vars

\* ---------------------------------------------------------------------
\* SpecAutosave: autosave requests, one after the other, on the attempt of a
\* session user 1 has started on test 1.
InitAutosave ==
  /\ FixedContent
  /\ planLimits = FreePlan
  /\ StartedStore(1, 1)
  /\ answers = <<>>
  /\ InitRequests

NextAutosave ==
  \/ AutosaveRequests(1, Users, AnswerArrays(MaxBatch, QIds, SelVals))
  \/ AutosaveSteps(1)
  \/ Finish(1)

SpecAutosave == InitAutosave /\ [][NextAutosave]_vars

\* ---------------------------------------------------------------------
\* SpecGrade: submitSession on an attempt of user 1 on test 1, for every
\* question list, every set of flagged options and every ledger in which a
\* question has at most one row.
RECURSIVE LedgerRows(_, _)
LedgerRows(g, q) ==
  IF q > MaxQuestions THEN <<>>
  ELSE IF g[q] = ABSENT THEN LedgerRows(g, q + 1)
  ELSE <<[attempt_id |-> 1, question_id |-> q, selected_option_id |-> g[q],
          marks_obtained |-> NULL, is_correct |-> "null"]>>
       \o LedgerRows(g, q + 1)

Ledgers == {LedgerRows(g, 1) : g \in [QIds -> SelVals \cup {ABSENT}]}

InitGrade ==
  /\ tests = [t \in TestIds |-> BaseTest]
  /\ testQuestions \in {[t \in TestIds |-> IF t = 1 THEN ql ELSE <<>>]
                          : ql \in QuestionLists}
  /\ correctFlags \in SUBSET OptIds
  /\ transactions = [u \in Users |-> [t \in TestIds |-> 0]]
  /\ planLimits = FreePlan
  /\ StartedStore(1, 1)
  /\ answers \in Ledgers
  /\ InitRequests

NextGrade ==
  \/ SubmitRequests(1, Users)
  \/ SubmitSteps(1)
  \/ Finish(1)

SpecGrade == InitGrade /\ [][NextGrade]_vars

\* ---------------------------------------------------------------------
\* SpecCreate: createSession requests of user 1, one after the other, for
\* every row test 1 can be (published or not, window, free or paid, type and
\* category), with or without a payment, under each plan; the inserts of
\* the attempt and of the session can fail.
TestRows ==
  {[is_published |-> pb, start_rel |-> sr, end_rel |-> er, is_free |-> fr,
    test_type |-> ty, test_category |-> cat] :
     pb \in BOOLEAN, sr \in {"none", "past", "future"},
     er \in {"none", "past", "future"}, fr \in BOOLEAN,
     ty \in {"mock", "assessment", "practice", "quiz"},
     cat \in {"none", "chapter", "subject"}}

InitCreate ==
  /\ tests \in {[t \in TestIds |-> IF t = 1 THEN row ELSE PaidChapterTest]
                  : row \in TestRows}
  /\ testQuestions = [t \in TestIds |-> <<>>]
  /\ correctFlags = {}
  /\ transactions \in {[u \in Users |-> [t \in TestIds |-> n]] : n \in {0, 1}}
  /\ planLimits \in {FreePlan, OnePlan, UnlimitedPlan}
  /\ EmptyStore
  /\ InitRequests

NextCreate ==
  \/ CreateRequests(1, {1}, {0, 1, 3})
  \/ CreateStepsFailing(1)
  \/ Finish(1)

SpecCreate == InitCreate /\ [][NextCreate]_vars

\* ---------------------------------------------------------------------
\* SpecPayload: createSession requests of user 1, one after the other, for
\* every question list of test 1 and every set of flagged options.
InitPayload ==
  /\ tests = [t \in TestIds |-> IF t = 1 THEN BaseTest ELSE PaidChapterTest]
  /\ testQuestions \in {[t \in TestIds |-> IF t = 1 THEN ql ELSE <<>>]
                          : ql \in QuestionLists}
  /\ correctFlags \in SUBSET OptIds
  /\ transactions = [u \in Users |-> [t \in TestIds |-> 1]]
  /\ planLimits = FreePlan
  /\ EmptyStore
  /\ InitRequests

NextPayload ==
  \/ CreateRequests(1, {1}, TestIds)
  \/ CreateSteps(1)
  \/ Finish(1)

SpecPayload == InitPayload /\ [][NextPayload]_vars

\* ---------------------------------------------------------------------
\* SpecReclaim: createSession and submitSession requests of user 1 running
\* concurrently, one per slot, from a store in which user 1 has autosaved one
\* answer on test 1 and holds either one in_progress attempt or the two that
\* two concurrent createSession calls leave.
DuplicateStore(u, t) ==
  /\ attempts = <<[NewAttempt(u, t) EXCEPT !.session_id = 1],
                  [NewAttempt(u, t) EXCEPT !.session_id = 2]>>
  /\ sessions = <<NewSession(1), NewSession(2)>>
  /\ leaderboards = <<>>
  /\ events = <<>>

InitReclaim ==
  /\ FixedContent
  /\ planLimits = FreePlan
  /\ StartedStore(1, 1) \/ DuplicateStore(1, 1)
  /\ answers = <<[attempt_id |-> 1, question_id |-> 1,
                  selected_option_id |-> 1, marks_obtained |-> NULL,
                  is_correct |-> "null"]>>
  /\ InitRequests

NextReclaim ==
  \E p \in Procs :
    \/ CreateRequests(p, {1}, TestIds)
    \/ SubmitRequests(p, {1})
    \/ CreateSteps(p)
    \/ SubmitSteps(p)
    \/ Finish(p)

SpecReclaim == InitReclaim /\ [][NextReclaim]_vars

\* ---------------------------------------------------------------------
\* SpecTabs: two tabs of user 1 on the attempt of the session started on
\* test 1: slot 1 submits, slot 2 autosaves answers to question 1, every
\* await of one falling between two awaits of the other. The ledger starts
\* empty or with the row of question 1.
InitTabs ==
  /\ FixedContent
  /\ planLimits = FreePlan
  /\ StartedStore(1, 1)
  /\ answers \in {<<>>, <<[attempt_id |-> 1, question_id |-> 1,
                          selected_option_id |-> 1, marks_obtained |-> NULL,
                          is_correct |-> "null"]>>}
  /\ InitRequests

NextTabs ==
  \/ SubmitRequests(1, {1})
  \/ SubmitSteps(1)
  \/ AutosaveRequests(2, {1}, AnswerArrays(1, {1}, {1, 2}))
  \/ AutosaveSteps(2)
  \/ \E p \in Procs : Finish(p)

SpecTabs == InitTabs /\ [][NextTabs]_vars

\* ---------------------------------------------------------------------
\* SpecQuota: createSession requests of user 1 running concurrently, one per
\* slot, under a plan of one attempt per category, from an empty store; the
\* entitlement lookup always succeeds.
InitQuota ==
  /\ FixedContent
  /\ planLimits = OnePlan
  /\ EmptyStore
  /\ InitRequests

NextQuota ==
  \E p \in Procs :
    \/ CreateRequests(p, {1}, TestIds)
    \/ CreateTestLookup(p)
    \/ CreateTxLookup(p)
    \/ CreateLimits(p, TRUE)
    \/ CreateDelete(p)
    \/ CreateInsertAttempt(p, TRUE)
    \/ CreateInsertSession(p, TRUE)
    \/ CreateBackfill(p)
    \/ CreateRespond(p)
    \/ Finish(p)

SpecQuota == InitQuota /\ [][NextQuota]_vars

\* ---------------------------------------------------------------------
\* SpecEvents: postSessionEvent requests running concurrently, one per slot,
\* on the session user 1 has started on test 1; "mouse_move" is a type that
\* is not in validTypes.
InitEvents ==
  /\ FixedContent
  /\ planLimits = FreePlan
  /\ StartedStore(1, 1)
  /\ answers = <<>>
  /\ InitRequests

NextEvents ==
  \E p \in Procs :
    \/ EventRequests(p, Users, validTypes \cup {"mouse_move"})
    \/ EventSteps(p)
    \/ Finish(p)

SpecEvents == InitEvents /\ [][NextEvents]_vars

\* =====================================================================
\* Claims
\* =====================================================================
Done(p, op, status) ==
  pc[p] = "done" /\ req[p].op = op /\ resp[p].status = status

\* C1: in every reachable state, under any interleaving of concurrent
\* requests, each (user, test) pair has at most one attempt with status
\* in_progress.
C1_AtMostOneInProgress ==
  \A u \in Users, t \in TestIds : Cardinality(InProgress(u, t)) <= 1

\* C2: when a createSession(U, T) that ran after earlier requests had
\* responded answers 201, the attempt it created is the only in_progress
\* attempt of (U, T), and every other attempt of (U, T) that was never
\* submitted has been deleted.
C2_BackToBackCreate ==
  Done(1, "create", 201) =>
    /\ InProgress(req[1].user, req[1].test) = {resp[1].attemptId}
    /\ \A a \in AttemptIds \ {resp[1].attemptId} :
         (/\ attempts[a].user = req[1].user
          /\ attempts[a].test = req[1].test
          /\ attempts[a].submit_time = 0) => attempts[a].status = "deleted"

\* C2 witness: a second createSession of the same user and test has
\* answered 201 and the attempt of the first one is gone.
C2_Witness ==
  /\ Done(1, "create", 201)
  /\ \E a \in AttemptIds :
       /\ a < resp[1].attemptId
       /\ attempts[a].user = req[1].user
       /\ attempts[a].test = req[1].test
       /\ attempts[a].status = "deleted"

\* ---- what a finished submitSession left behind, read off the store
Flagged(q) == OptionsOf(q) \cap correctFlags
TheRow(a, q) == answers[CHOOSE r \in RowsOf(a, q) : TRUE]
QuestionsOf(a) == testQuestions[attempts[a].test]
QuestionCount(a) == Len(QuestionsOf(a))
TotalMarks(a) ==
  SumSeq([i \in 1..QuestionCount(a) |-> QuestionsOf(a)[i].marks_allocated])
\* the signed marks of the attempt's answer rows, over the test's questions
SignedSum(a) ==
  SumSeq([i \in 1..QuestionCount(a) |->
            IF RowsOf(a, QuestionsOf(a)[i].question_id) = {} THEN 0
            ELSE TheRow(a, QuestionsOf(a)[i].question_id).marks_obtained])

\* C3: after a successful submitSession, on either path, the returned and the
\* stored counts satisfy correct + incorrect + unanswered = number of
\* questions of the attempt's test.
C3_CountsSum ==
  Done(1, "submit", 200) =>
    LET a == resp[1].attemptId
    IN /\ resp[1].correct + resp[1].incorrect + resp[1].unanswered
            = QuestionCount(a)
       /\ attempts[a].correct_answers + attempts[a].incorrect_answers
            + attempts[a].unanswered = QuestionCount(a)

\* C3 witness: a graded submit with a correct answer whose ledger also holds a
\* row for a question that is not in the test.
C3_Witness ==
  /\ Done(1, "submit", 200)
  /\ resp[1].path = "graded"
  /\ resp[1].correct >= 1
  /\ \E r \in 1..Len(answers) :
       /\ answers[r].attempt_id = resp[1].attemptId
       /\ answers[r].question_id > QuestionCount(resp[1].attemptId)

\* C4: the score returned by submitSession and the total_marks_obtained it
\* stored are the signed sum of the per-question marks clamped at 0, hence
\* never negative.
C4_ScoreClamped ==
  Done(1, "submit", 200) =>
    LET a == resp[1].attemptId
    IN /\ resp[1].score >= 0
       /\ resp[1].score = Max(0, SignedSum(a))
       /\ attempts[a].total_marks_obtained = resp[1].score

\* C4 witness: the signed sum is negative and the score is 0.
C4_Witness ==
  /\ Done(1, "submit", 200)
  /\ SignedSum(resp[1].attemptId) < 0
  /\ resp[1].score = 0

\* C5 as stated: the percentage (returned, in hundredths of a percent point,
\* and stored) is 0 when totalPossible is 0 and exactly
\* obtained / totalPossible x 100 otherwise.
C5_PercentageExact ==
  Done(1, "submit", 200) =>
    LET a == resp[1].attemptId
        tp == resp[1].totalPossible
        stored == attempts[a].percentage
    IN IF tp = 0
         THEN resp[1].percentage = 0 /\ stored.num = 0
         ELSE /\ resp[1].percentage * tp = resp[1].score * 100 * 100
              /\ stored.num * tp = resp[1].score * 100 * stored.den

\* C5 amended: the stored percentage is 0 when totalPossible is 0 and exactly
\* obtained / totalPossible x 100 otherwise; the returned percentage is that
\* value rounded to two decimals (within half a hundredth, a tie going up).
C5_PercentageRounded ==
  Done(1, "submit", 200) =>
    LET a == resp[1].attemptId
        tp == resp[1].totalPossible
        stored == attempts[a].percentage
        err == 2 * (resp[1].percentage * tp - resp[1].score * 100 * 100)
    IN IF tp = 0
         THEN resp[1].percentage = 0 /\ stored.num = 0
         ELSE /\ stored.num * tp = resp[1].score * 100 * stored.den
              /\ 0 - tp < err /\ err <= tp

\* C5 witness: a returned percentage that is not the exact quotient.
C5_Witness ==
  /\ Done(1, "submit", 200)
  /\ resp[1].totalPossible > 0
  /\ resp[1].percentage * resp[1].totalPossible # resp[1].score * 100 * 100

\* the scenario of C6: two questions of 4 marks / 1 negative, each with one
\* flagged option, question 1 answered with its flagged option and question 2
\* with another option
Scenario(a) ==
  /\ QuestionsOf(a) = <<TQ(1, 4, 1), TQ(2, 4, 1)>>
  /\ \A q \in {1, 2} : Cardinality(Flagged(q)) = 1 /\ RowsOf(a, q) # {}
  /\ TheRow(a, 1).selected_option_id \in Flagged(1)
  /\ TheRow(a, 2).selected_option_id \notin Flagged(2) \cup {NULL}

OnlyNullRows(a) ==
  \A r \in 1..Len(answers) :
    answers[r].attempt_id = a => answers[r].selected_option_id = NULL

\* C7: a submitSession on an attempt whose ledger is empty or holds only
\* null selections answers score 0, percentage 0, correct 0, incorrect 0,
\* unanswered = number of questions and the test's totalPossible, leaves the
\* attempt completed and appends one leaderboard entry with score 0.
C7_NullAsAbsent ==
  [][ (/\ pc[1] \in {"s_zero_board", "s_board"}
       /\ pc'[1] = "done"
       /\ OnlyNullRows(loc[1].attempt_id))
      => LET a == loc[1].attempt_id
         IN /\ resp'[1].status = 200
            /\ resp'[1].score = 0 /\ resp'[1].percentage = 0
            /\ resp'[1].correct = 0 /\ resp'[1].incorrect = 0
            /\ resp'[1].unanswered = QuestionCount(a)
            /\ resp'[1].totalPossible = TotalMarks(a)
            /\ attempts'[a].status = "completed"
            /\ attempts'[a].total_marks_obtained = 0
            /\ attempts'[a].unanswered = QuestionCount(a)
            /\ leaderboards' =
                 Append(leaderboards,
                        [test_id |-> attempts[a].test,
                         user_id |-> attempts[a].user, score |-> 0]) ]_vars

\* C7 witness: a graded submit (not the zero-answer path) of a ledger with
\* rows that all have a null selection, on a test with flagged options.
C7_Witness ==
  /\ Done(1, "submit", 200)
  /\ resp[1].path = "graded"
  /\ OnlyNullRows(resp[1].attemptId)
  /\ QuestionCount(resp[1].attemptId) >= 1
  /\ \A i \in 1..QuestionCount(resp[1].attemptId) :
       /\ RowsOf(resp[1].attemptId, i) # {}
       /\ Flagged(i) # {}

\* C8: with autosave calls run one after the other, whenever no call is in
\* flight the ledger holds exactly one row for each (attempt, question) ever
\* autosaved, its selection is the one of the last call (last array element)
\* that named the question, and it holds no other row; so a repeated call,
\* which leaves the last selections as they are, changes no selection and
\* adds no row, and questions a call does not name keep their selection.
C8_LastWriteWins ==
  pc[1] \in {"idle", "done"} =>
    \A a \in AttemptIds, q \in QIds :
      IF <<a, q>> \in DOMAIN lastSaved
        THEN /\ Cardinality(RowsOf(a, q)) = 1
             /\ TheRow(a, q).selected_option_id = lastSaved[<<a, q>>]
        ELSE RowsOf(a, q) = {}

\* C8 witness: an autosave naming one question twice with different
\* selections has been acknowledged while the ledger holds another question's
\* row with a selection.
C8_Witness ==
  /\ Done(1, "autosave", 200)
  /\ Len(req[1].answers) = 2
  /\ req[1].answers[1].questionId = req[1].answers[2].questionId
  /\ req[1].answers[1].selectedOptionId # req[1].answers[2].selectedOptionId
  /\ \E r \in 1..Len(answers) :
       /\ answers[r].question_id # req[1].answers[1].questionId
       /\ answers[r].selected_option_id # NULL

\* C9: in every reachable state, under any interleaving of concurrent
\* autosave requests, the ledger holds at most one row per (attempt, question).
C9_OneRowPerQuestion ==
  \A a \in AttemptIds, q \in QIds : Cardinality(RowsOf(a, q)) <= 1

\* the request of slot p takes a step
Steps(p) == pc'[p] # pc[p]

\* C10: an attempt is created in_progress; its status changes only from
\* in_progress to completed, and only by the attempt update of a
\* submitSession on it; a completed attempt is never set back and never
\* deleted; an in_progress attempt is deleted only by the cleanup of a
\* createSession for its (user, test) or of a submitSession on another attempt
\* of its (user, test); every other step leaves it in_progress.
C10_StatusMachine ==
  [][ /\ Len(attempts') >= Len(attempts)
      /\ \A a \in 1..Len(attempts') :
           IF a > Len(attempts)
             THEN attempts'[a].status = "in_progress"
             ELSE
               /\ attempts[a].status = "completed"
                    => attempts'[a].status = "completed"
               /\ attempts[a].status = "deleted"
                    => attempts'[a].status = "deleted"
               /\ (attempts[a].status = "in_progress"
                   /\ attempts'[a].status = "completed")
                    => \E p \in Procs :
                         /\ Steps(p)
                         /\ pc[p] \in {"s_update", "s_zero_update"}
                         /\ loc[p].attempt_id = a
               /\ (attempts[a].status = "in_progress"
                   /\ attempts'[a].status = "deleted")
                    => \E p \in Procs :
                         /\ Steps(p)
                         /\ req[p].user = attempts[a].user
                         /\ \/ pc[p] = "c_delete"
                               /\ req[p].test = attempts[a].test
                            \/ pc[p] = "s_cleanup"
                               /\ loc[p].test_id = attempts[a].test
                               /\ loc[p].attempt_id # a ]_vars

\* C10 witness: an autosave on a completed attempt has been acknowledged,
\* and an earlier in_progress attempt has been reclaimed.
C10_Witness ==
  /\ Done(1, "autosave", 200)
  /\ attempts[sessions[req[1].token].attempt_id].status = "completed"
  /\ attempts[sessions[req[1].token].attempt_id].end_time
  /\ \E a \in AttemptIds : attempts[a].status = "deleted"

\* C11: once an attempt is completed, no later step (of a repeated
\* submitSession with the same token, of an autosaveAnswers, or of any other
\* request) changes its submit_time.
C11_SubmitTimeSetOnce ==
  [][ \A a \in AttemptIds :
        attempts[a].status = "completed"
          => attempts'[a].submit_time = attempts[a].submit_time ]_vars

\* results the submitSession calls on attempt a have returned
ResultsOf(a) ==
  {i \in 1..Len(submitLog.results) : submitLog.results[i].attempt = a}
\* submitSession calls on attempt a that passed the session and owner checks
PassedOf(a) ==
  {i \in 1..Len(submitLog.passed) : submitLog.passed[i] = a}

\* C12: every submitSession that passed the session and ownership checks,
\* also one on a completed attempt, succeeds and appends one leaderboard row,
\* so that with no submit in flight the rows produced for an attempt are as
\* many as such calls; and two calls on the same attempt that found the same
\* ledger returned the same score, percentage and counts.
C12_ResubmitSame ==
  /\ PendingSubmits = 0 =>
       /\ Len(leaderboards) = Len(submitLog.results)
       /\ \A a \in AttemptIds :
            Cardinality(ResultsOf(a)) = Cardinality(PassedOf(a))
  /\ \A i, j \in 1..Len(submitLog.results) :
       LET x == submitLog.results[i]
           y == submitLog.results[j]
       IN (x.attempt = y.attempt /\ x.ledger = y.ledger) => x = y

\* the answer rows of attempt a
LedgerOf(a) == {r \in 1..Len(answers) : answers[r].attempt_id = a}

\* C13: once an attempt is completed, no step of another operation than
\* submitSession changes any of its answer rows or adds a row to it, no step
\* at all changes the selection of one of its rows, and marks_obtained and
\* is_correct of a row are changed only by steps of submitSession.
C13_LedgerReadOnly ==
  [][ /\ \A a \in AttemptIds :
           attempts[a].status = "completed" =>
             /\ {r \in 1..Len(answers') : answers'[r].attempt_id = a}
                  = LedgerOf(a)
             /\ \A r \in LedgerOf(a) :
                  /\ answers'[r].selected_option_id
                       = answers[r].selected_option_id
                  /\ answers'[r] # answers[r]
                       => \E p \in Procs : Steps(p) /\ req[p].op = "submit"
      /\ \A r \in 1..Len(answers) :
           (\/ answers'[r].marks_obtained # answers[r].marks_obtained
            \/ answers'[r].is_correct # answers[r].is_correct)
             => \E p \in Procs : Steps(p) /\ req[p].op = "submit" ]_vars

\* the request of slot p, as it is after the step, addresses with a valid
\* token an attempt that exists and belongs to another user
NotOwner(p) ==
  /\ req'[p].op \in {"autosave", "submit", "event"}
  /\ req'[p].token \in 1..Len(sessions)
  /\ Exists(sessions[req'[p].token].attempt_id)
  /\ attempts[sessions[req'[p].token].attempt_id].user # req'[p].user

\* C14: no step of an autosaveAnswers, submitSession or postSessionEvent
\* request made with a valid token by a user who is not the owner of the
\* token's attempt changes the ledger, the attempts, the sessions, the
\* proctoring events or the leaderboard, and the request is not answered 200.
C14_TokenNotSufficient ==
  [][ \A p \in Procs :
        (Steps(p) /\ NotOwner(p)) =>
          /\ store' = store
          /\ pc'[p] = "done" => resp'[p].status # 200 ]_vars

Counters == {"tab_switches", "screenshot_count", "violation_count"}

\* C19: a postSessionEvent with a type outside the six valid ones is answered
\* 400 at once and changes nothing. An accepted one appends exactly one
\* proctoring_events record of its session and type, in its step after the
\* session lookup, and is answered 200 only after that; when no other request
\* has written the session since it was read, its update adds 1 to exactly
\* the counter of its type (tab_switch: tab_switches, screenshot:
\* screenshot_count, face_detection and multiple_faces: violation_count) and
\* leaves the others; heartbeat and fullscreen_exit requests write no counter.
C19_EventTypes ==
  [][ \A p \in Procs :
        (Steps(p) /\ req'[p].op = "event") =>
          LET type == req'[p].type
              tok == req'[p].token
              field == IF type = "tab_switch" THEN {"tab_switches"}
                       ELSE IF type = "screenshot" THEN {"screenshot_count"}
                       ELSE IF type \in {"face_detection", "multiple_faces"}
                         THEN {"violation_count"}
                       ELSE {}
          IN /\ type \notin validTypes =>
                  /\ pc[p] = "idle" /\ pc'[p] = "done"
                  /\ resp'[p].status = 400
                  /\ store' = store
             /\ IF pc[p] = "e_insert"
                  THEN events' = Append(events, [test_session_id |-> tok,
                                                 event_type |-> type])
                  ELSE events' = events
             /\ (pc'[p] = "done" /\ resp'[p].status = 200) =>
                  \/ pc[p] = "e_update"
                  \/ pc[p] = "e_insert" /\ field = {}
             /\ pc'[p] = "e_update" => pc[p] = "e_insert"
             /\ pc'[p] = "e_insert" => pc[p] = "e_session"
             /\ IF pc[p] = "e_update" /\ sessions[tok] = loc[p].session
                  THEN /\ Cardinality(field) = 1
                       /\ \A c \in Counters :
                            sessions'[tok][c] =
                              IF c \in field THEN OrZero(sessions[tok][c]) + 1
                              ELSE sessions[tok][c]
                  ELSE pc[p] # "e_update" => sessions' = sessions ]_vars

\* C19 witness: a multiple_faces event has been answered 200 with the
\* violation counter at 2 and two events logged, after a heartbeat.
C19_Witness ==
  \E p \in Procs :
    /\ Done(p, "event", 200)
    /\ req[p].type = "multiple_faces"
    /\ sessions[req[p].token].violation_count = 2
    /\ sessions[req[p].token].tab_switches = NULL
    /\ Len(events) = 3
    /\ events[1].event_type = "heartbeat"

\* C20: no step of any interleaving of postSessionEvent requests lowers or
\* resets a stored session counter.
C20_CountersMonotonic ==
  [][ \A x \in 1..Len(sessions) : \A c \in Counters :
        OrZero(sessions'[x][c]) >= OrZero(sessions[x][c]) ]_vars

\* C15: an autosaveAnswers or submitSession whose token resolves to no
\* session is answered 404; a submitSession whose session exists while its
\* attempt does not is answered 404; 403 is answered only when the attempt
\* exists and belongs to another user than the caller; an autosaveAnswers
\* without an answers array is answered 400; and the step that answers 400,
\* 403 or 404 leaves every stored record as it was.
C15_TokenWriteErrors ==
  [][ \A p \in Procs :
        (Steps(p) /\ pc'[p] = "done"
           /\ req'[p].op \in {"autosave", "submit"}) =>
          LET op == req'[p].op
              st == resp'[p].status
              tok == req'[p].token
              hasSession == tok \in 1..Len(sessions)
              a == sessions[tok].attempt_id
          IN /\ (op = "autosave" /\ ~req'[p].isArray) => st = 400
             /\ (~hasSession /\ (op = "submit" \/ req'[p].isArray))
                  => st = 404
             /\ (op = "submit" /\ hasSession /\ ~Exists(a)) => st = 404
             /\ st = 403 =>
                  /\ hasSession
                  /\ Exists(a)
                  /\ attempts[a].user # req'[p].user
             /\ st \in {400, 403, 404} => store' = store ]_vars

\* C16: createSession answers with the failure of the first precondition
\* that does not hold, in the order test published (404), time window (403
\* "Test not started", then 403 "Test expired"), payment of a non-free test
\* (402), quota (403 limitReached), and goes on to create the attempt only
\* when the first three hold.
C16_PreconditionOrder ==
  [][ (/\ Steps(1) /\ req'[1].op = "create" /\ req'[1].test # 0
       /\ pc[1] \in {"c_test", "c_tx", "c_limits"}
       /\ pc'[1] \in {"done", "c_delete"}) =>
        LET t == req[1].test
            u == req[1].user
            found == t \in DOMAIN tests /\ tests[t].is_published
            paid == tests[t].is_free \/ transactions[u][t] = 1
            r == resp'[1]
        IN IF ~found THEN r = [status |-> 404]
           ELSE IF tests[t].start_rel = "future"
             THEN r = [status |-> 403, message |-> "Test not started"]
           ELSE IF tests[t].end_rel = "past"
             THEN r = [status |-> 403, message |-> "Test expired"]
           ELSE IF ~paid THEN r = [status |-> 402]
           ELSE \/ pc'[1] = "c_delete"
                \/ /\ pc'[1] = "done" /\ r.status = 403
                   /\ "limitReached" \in DOMAIN r ]_vars

\* C16 witness: an expired paid test without payment has been answered 403
\* "Test expired".
C16_Witness ==
  /\ Done(1, "create", 403)
  /\ resp[1] = [status |-> 403, message |-> "Test expired"]
  /\ ~tests[req[1].test].is_free
  /\ transactions[req[1].user][req[1].test] = 0

\* C17: when the entitlement lookup reports, for the category of the test,
\* remaining = 0 and a limit other than -1, createSession answers 403 with
\* limitReached and that row's limit and usage, and deletes and creates
\* nothing; it answers so in no other case, and a reported unlimited row with
\* remaining = 0 lets the request go on.
C17_LimitReached ==
  [][ (Steps(1) /\ pc[1] = "c_limits") =>
        LET cat == TestCategory(tests[req[1].test])
            lim == FindLimit(get_user_test_limits(req[1].user), cat)
            exhausted == lim.remaining = 0 /\ lim.limit_value # UNLIMITED
        IN /\ pc'[1] = "done" =>
                /\ exhausted
                /\ resp'[1] = [status |-> 403, limitReached |-> TRUE,
                               testType |-> cat, limit |-> lim.limit_value,
                               used |-> lim.current_usage]
                /\ store' = store
           /\ (pc'[1] = "c_delete" /\ loc'[1].limit # <<>>) =>
                /\ loc'[1].limit = lim
                /\ ~exhausted ]_vars

\* C17 witness: a createSession has been answered 403 limitReached while the
\* user's in_progress attempt for the test is still there.
C17_Witness ==
  /\ Done(1, "create", 403)
  /\ "limitReached" \in DOMAIN resp[1]
  /\ resp[1].limit = 1 /\ resp[1].used = 1
  /\ InProgress(req[1].user, req[1].test) # {}

\* C18: createSession inserts an attempt only when the entitlement lookup
\* has reported, for the category of the test, remaining > 0 or an unlimited
\* quota.
C18_InsertOnlyEntitled ==
  [][ \A p \in Procs :
        (Steps(p) /\ pc[p] = "c_insert") =>
          /\ loc[p].limit # <<>>
          /\ \/ loc[p].limit.remaining > 0
             \/ loc[p].limit.limit_value = UNLIMITED ]_vars

\* the test_sessions rows of attempt a
SessionsOf(a) == {x \in 1..Len(sessions) : sessions[x].attempt_id = a}

\* C22: no attempt ever has two sessions, and in every state in which no
\* createSession is mid-request every attempt in the store has exactly one
\* session, whatever the outcome of the createSession calls so far.
C22_OneSessionPerAttempt ==
  /\ \A a \in AttemptIds : Cardinality(SessionsOf(a)) <= 1
  /\ (\A p \in Procs : req[p].op = "create" => pc[p] \in {"idle", "done"})
       => \A a \in AttemptIds :
            Exists(a) => Cardinality(SessionsOf(a)) = 1

\* C30: when a createSession has answered with an error (400, 402, 403, 404
\* or 500), the test_attempts and test_sessions tables are as the request
\* found them.
C30_FailedCreateNoChange ==
  \A p \in Procs :
    (/\ pc[p] = "done" /\ req[p].op = "create"
     /\ resp[p].status \in {400, 402, 403, 404, 500})
      => <<attempts, sessions>> = before[p]

\* C21: the question list createSession returns is determined by the test's
\* questions and the ids and texts of their options alone, so that two
\* content stores differing only in is_correct flags get the same list; each
\* option of the list consists of its id and text only.
C21_NoAnswerKey ==
  \A p \in Procs :
    Done(p, "create", 201) =>
      LET qs == testQuestions[req[p].test]
          list == resp[p].questions
      IN /\ Len(list) = Len(qs)
         /\ \A i \in 1..Len(qs) :
              /\ list[i].questionId = qs[i].question_id
              /\ Len(list[i].options) = OptionsPerQuestion
              /\ \A k \in 1..OptionsPerQuestion :
                   list[i].options[k] =
                     [optionId |->
                        OptionsPerQuestion * (qs[i].question_id - 1) + k,
                      text |->
                        OptionsPerQuestion * (qs[i].question_id - 1) + k]

\* C21 witness: a session has been started on a test of two questions, one
\* with both options flagged and one with none.
C21_Witness ==
  /\ Done(1, "create", 201)
  /\ Len(resp[1].questions) = 2
  /\ OptionsOf(1) \subseteq correctFlags
  /\ OptionsOf(2) \cap correctFlags = {}

\* C23: after every successful submitSession, on the zero-answer path as on
\* the grading path, the session of the submitted attempt has session_end
\* set.
C23_SessionEndStamped ==
  \A p \in Procs :
    Done(p, "submit", 200) =>
      \A x \in SessionsOf(resp[p].attemptId) : sessions[x].session_end

\* C24: grading is deterministic: two submitSession results for the same
\* attempt, question list, option set and ledger carry the same score,
\* percentage and counts, whatever order the store returned the rows in.
C24_GradingDeterministic ==
  \A i, j \in 1..Len(submitLog.results) :
    LET x == submitLog.results[i]
        y == submitLog.results[j]
    IN (x.attempt = y.attempt /\ x.ledger = y.ledger) =>
         /\ x.score = y.score
         /\ x.percentage = y.percentage
         /\ <<x.correct, x.incorrect, x.unanswered>>
              = <<y.correct, y.incorrect, y.unanswered>>

C27_LeaderboardHasAttempt ==
  [][ /\ Len(leaderboards') > Len(leaderboards) =>
           LET e == leaderboards'[Len(leaderboards')]
           IN \E a \in AttemptIds :
                /\ attempts[a].user = e.user_id
                /\ attempts[a].test = e.test_id
                /\ attempts[a].status = "completed"
                /\ attempts[a].total_marks_obtained = e.score
      /\ \A i \in 1..Len(leaderboards') :
           \E a \in 1..Len(attempts') :
             /\ attempts'[a].user = leaderboards'[i].user_id
             /\ attempts'[a].test = leaderboards'[i].test_id
             /\ attempts'[a].status = "completed" ]_vars

\* the results grading the ledger of attempt a as it stands can give, one per
\* order in which the store can return the rows
GradingsNow(a) ==
  {Grade(QuestionsOf(a),
         [q \in DOMAIN f |-> answers[f[q]].selected_option_id], cm) :
     f \in FindChoices(a), cm \in CorrectChoices(AnsweredQIds(a))}

\* C26: when a submitSession responds 200, whatever autosaveAnswers requests
\* on the same attempt ran between its steps, the aggregate it wrote to the
\* attempt is the grading of the ledger as it stands at that moment, and the
\* marks and is_correct of each answer row of a question of the test agree
\* with the row's selection at that moment.
C26_AggregateMatchesLedger ==
  [][ \A p \in Procs :
        (Steps(p) /\ pc[p] \in {"s_board", "s_zero_board"}
           /\ Exists(loc[p].attempt_id)) =>
          LET a == loc[p].attempt_id
          IN \E g \in GradingsNow(a) :
               /\ attempts[a].total_marks_obtained = g.totalObtained
               /\ attempts[a].correct_answers = g.correct
               /\ attempts[a].incorrect_answers = g.incorrect
               /\ attempts[a].unanswered = g.unattempted
               /\ \A i \in 1..Len(g.perQ) :
                    \A r \in RowsOf(a, g.perQ[i].questionId) :
                      /\ answers[r].marks_obtained = g.perQ[i].marksObtained
                      /\ answers[r].is_correct = g.perQ[i].isCorrect ]_vars

\* C28: a finite quota is never exceeded: under a plan whose limit for a
\* category is not unlimited, after any interleaving of createSession
\* requests the number of attempts of a user counted toward the category is
\* at most the limit.
C28_QuotaNeverExceeded ==
  \A u \in Users :
    /\ planLimits.mock # UNLIMITED => MockUsage(u) <= planLimits.mock
    /\ planLimits.chapter # UNLIMITED => ChapterUsage(u) <= planLimits.chapter

\* C29: the category createSession checks is the category the new attempt is
\* charged to: whatever the type and the category metadata of the test, the
\* insert of the attempt by a createSession that checked a row of
\* get_user_test_limits raises the current_usage of that row by one.
C29_CheckedIsCharged ==
  [][ \A p \in Procs :
        (Steps(p) /\ pc[p] = "c_insert" /\ Len(attempts') > Len(attempts)
           /\ loc[p].limit # <<>>) =>
          LET cat == TestCategory(tests[req[p].test])
              rows == get_user_test_limits(req[p].user)
          IN FindLimit(get_user_test_limits(req[p].user)', cat).current_usage
               = FindLimit(rows, cat).current_usage + 1 ]_vars
====
